---- MODULE Spec2Model ----
(***************************************************************************)
(* A model of the semantic router repository: the centroid ingestion       *)
(* (CentroidConverter, CentroidVisualizer), the two-stage router, the      *)
(* session manager, the query-answer cycle and the accuracy evaluator.     *)
(*                                                                         *)
(* Numbers: embeddings are vectors of integers and centroids are exact     *)
(* rationals (a numerator vector over one positive denominator, in lowest  *)
(* terms), so "equal within floating-point tolerance" is exact equality.   *)
(***************************************************************************)
EXTENDS Integers, Sequences, FiniteSets, TLC

VARIABLES
    \* ---- ingestion ----
    chunkCount,     \* file name -> number of chunks the splitter cuts it into
    dirs,           \* expert directory -> set of file names in it
    present,        \* the expert directories that exist under the data dir
    conv,           \* CentroidConverter.tracking_data of the converter object
    trackingFile,   \* the persisted tracking file (processed_files.json)
    artifact,       \* the generated lookup artifact (centroid_vectors.py)
    passes,         \* number of process_all calls so far
    fsOps,          \* number of changes made to the data directory so far
    loadFailures,   \* number of DirectoryLoader failures so far
    lastOp,         \* the last ingestion operation and how it ended
    \* ---- routing ----
    snapshot,       \* the four lookup tables the router holds
    routed,         \* the last routing request and its result
    \* ---- sessions ----
    sessions,       \* SessionManager.sessions: user id -> list of messages
    logs,           \* the conversations directory: file name -> lines
    clock,          \* time.time(), strictly increasing
    recorded,       \* per session id: the exchanges this manager was given or loaded,
                    \* since the last clear_session (history variable)
    writeFailures,  \* number of failed log writes so far
    reloads,        \* number of times the SessionManager was re-created
    clears,         \* number of clear_session calls so far
    sessOp,         \* the last SessionManager operation and how it ended
    \* ---- query-answer cycle ----
    apiKeySet,      \* whether OPENAI_API_KEY is a non-empty string
    cycle,          \* what the last query-answer cycle did
    cycles,         \* number of query-answer cycles so far
    \* ---- accuracy evaluation ----
    samples,        \* the labelled set: expected expert -> sample queries
    eval,           \* process_samples: its position, counters and last response
    \* ---- ingestion runs and the serving router ----
    runs,           \* per entry point (API request, CLI run): its converter and position
    generations,    \* the tracking states written so far, oldest first (history variable)
    \* ---- queries in flight ----
    inflight        \* per request: the suspension point it is at and what it holds

ingestVars == <<chunkCount, dirs, present, conv, trackingFile, artifact, passes, fsOps,
               loadFailures, lastOp>>
routeVars == <<snapshot, routed>>
sessionVars == <<sessions, logs, clock, recorded, writeFailures, reloads, clears, sessOp>>
cycleVars == <<apiKeySet, cycle, cycles>>
evalVars == <<samples, eval>>
passVars == <<runs, generations>>
concVars == <<inflight>>
restVars == <<evalVars, passVars, concVars>>
vars == <<ingestVars, routeVars, sessionVars, cycleVars, restVars>>

(***************************************************************************)
(* Bounds of the model.                                                    *)
(***************************************************************************)
MaxChunks == 2
MaxPasses == 2
MaxFsOps == 3
MaxLoadFailures == 1
MaxAdds == 7
MaxWriteFailures == 1
MaxReloads == 1
MaxClears == 1
MaxCycles == 2
MaxSamples == 2
MaxRuns == 2
MaxRequests == 3

(***************************************************************************)
(* Arithmetic on vectors and exact rational vectors.                       *)
(***************************************************************************)
Abs(x) == IF x < 0 THEN -x ELSE x

\* The greatest common divisor of two naturals, GCD(0, b) = b.
GCD(a, b) ==
    IF a = 0 THEN b ELSE IF b = 0 THEN a
    ELSE CHOOSE d \in 1..a :
            /\ a % d = 0 /\ b % d = 0
            /\ \A e \in (d + 1)..a : ~(a % e = 0 /\ b % e = 0)

RECURSIVE SeqGCD(_)
SeqGCD(s) == IF s = <<>> THEN 0 ELSE GCD(Abs(Head(s)), SeqGCD(Tail(s)))

ZeroVec == <<0, 0>>
VecAdd(a, b) == [i \in DOMAIN a |-> a[i] + b[i]]
VecScale(a, k) == [i \in DOMAIN a |-> a[i] * k]
Dot(a, b) == a[1] * b[1] + a[2] * b[2]

\* Python None, and numpy's np.array(None) (a 0-d object array holding None).
None == [n |-> <<>>, d |-> 0]
NpNone == [n |-> <<>>, d |-> -1]

\* The rational vector n/d in lowest terms, d > 0.
Rat(n, d) ==
    LET g == GCD(SeqGCD(n), Abs(d))
    IN  [n |-> [i \in DOMAIN n |-> n[i] \div g], d |-> d \div g]
RatOfVec(v) == [n |-> v, d |-> 1]
RatAdd(a, b) == Rat(VecAdd(VecScale(a.n, b.d), VecScale(b.n, a.d)), a.d * b.d)
RatScale(a, k) == Rat(VecScale(a.n, k), a.d)
RatDiv(a, k) == Rat(a.n, a.d * k)

RECURSIVE RatSum(_)
RatSum(s) == IF s = <<>> THEN RatOfVec(ZeroVec) ELSE RatAdd(Head(s), RatSum(Tail(s)))

RECURSIVE SumSeq(_)
SumSeq(s) == IF s = <<>> THEN 0 ELSE Head(s) + SumSeq(Tail(s))

\* A set as a sequence, in a fixed order (used to iterate a directory).
SetToSeq(S, order) == SelectSeq(order, LAMBDA x : x \in S)

(***************************************************************************)
(* The data directory: group/expert directories holding PDF files.         *)
(***************************************************************************)
Files == {"f1", "f2"}
FileOrder == <<"f1", "f2">>
ExpertDirs == {<<"g1", "a">>, <<"g1", "b">>, <<"g2", "a">>}
DirOrder == <<<<"g1", "a">>, <<"g1", "b">>, <<"g2", "a">>>>
GroupOrder == <<"g1", "g2">>

\* The embedding model applied to chunk j of file f (SentenceTransformer.encode).
ChunkEmbedding(f, j) == IF f = "f1" THEN <<1, j - 1>> ELSE <<0, j>>

RECURSIVE FileChunkSum(_, _)
FileChunkSum(f, k) ==
    IF k = 0 THEN ZeroVec ELSE VecAdd(ChunkEmbedding(f, k), FileChunkSum(f, k - 1))

(***************************************************************************)
(* Tracking data: the dict group -> {centroid, experts -> {centroid,       *)
(* files}}.  Python dicts keep insertion order, so a dict is a sequence of *)
(* entries with distinct names; a "files" list is used only as a set.      *)
(***************************************************************************)
EmptyTracking == <<>>

\* The position of the entry called name, 0 when there is none.
Find(s, name) ==
    IF \E i \in DOMAIN s : s[i].name = name
    THEN CHOOSE i \in DOMAIN s : s[i].name = name ELSE 0
Has(s, name) == Find(s, name) # 0
Get(s, name) == s[Find(s, name)]
Names(s) == [i \in DOMAIN s |-> s[i].name]

\* d[name] = entry: replaces in place, or appends a new key.
Put(s, entry) ==
    IF Has(s, entry.name) THEN [s EXCEPT ![Find(s, entry.name)] = entry]
    ELSE Append(s, entry)

NewGroup(g) == [name |-> g, centroid |-> None, experts |-> <<>>]
NewExpert(e) == [name |-> e, centroid |-> None, files |-> {}]

\* converter.py:94-98: the expert entry is created on first sight.
WithExpert(gd, e) ==
    IF Has(gd.experts, e) THEN gd
    ELSE [gd EXCEPT !.experts = Append(gd.experts, NewExpert(e))]

\* converter.py:90-91: the group entry is created on first sight.
WithGroup(td, g) == IF Has(td, g) THEN td ELSE Append(td, NewGroup(g))

\* td[g]["experts"][e] = ed.
PutExpert(td, g, ed) ==
    [td EXCEPT ![Find(td, g)].experts = Put(td[Find(td, g)].experts, ed)]

\* converter.py:90-98: both entries in place.
EnsureEntries(td, g, e) == Put(WithGroup(td, g), WithExpert(Get(WithGroup(td, g), g), e))

\* The sum of the embeddings of every chunk of the files in fs.
RECURSIVE NewChunkSum(_, _)
NewChunkSum(fs, cc) ==
    IF fs = <<>> THEN ZeroVec
    ELSE VecAdd(FileChunkSum(Head(fs), cc[Head(fs)]), NewChunkSum(Tail(fs), cc))

\* The number of chunks of the files in fs.
RECURSIVE NewChunkCount(_, _)
NewChunkCount(fs, cc) ==
    IF fs = <<>> THEN 0 ELSE cc[Head(fs)] + NewChunkCount(Tail(fs), cc)

\* converter.py:136-142: the stored centroid enters the sum weighted by the
\* number of tracked FILES.
OldWeight(ed) ==
    IF ed.centroid # None /\ ed.files # {} THEN Cardinality(ed.files) ELSE 0

\* converter.py:145-151: every CHUNK of a new file adds one to weight_sum.
NewWeight(newFiles, cc) == NewChunkCount(SetToSeq(newFiles, FileOrder), cc)

\* converter.py:139-155: np.sum(all_embeddings, axis=0) / weight_sum.
CombinedCentroid(ed, oldW, newFiles, newW, cc) ==
    RatDiv(RatAdd(IF oldW > 0 THEN RatScale(ed.centroid, oldW) ELSE RatOfVec(ZeroVec),
                  RatOfVec(NewChunkSum(SetToSeq(newFiles, FileOrder), cc))),
           oldW + newW)

\* converter.py:157-162: the new centroid and file list are stored and returned.
StoreExpert(td, g, ed, newFiles, centroid) ==
    [td |-> PutExpert(td, g, [ed EXCEPT !.centroid = centroid,
                                        !.files = ed.files \cup newFiles]),
     centroid |-> centroid,
     files |-> ed.files \cup newFiles]

\* converter.py:132-164: with something to average (the stored centroid or a
\* new chunk) the centroid is recomputed; else np.array(stored centroid) is
\* returned and nothing is stored.
UpdateExpert(td, g, ed, newFiles, oldW, newW, cc) ==
    IF oldW > 0 \/ newW > 0
    THEN StoreExpert(td, g, ed, newFiles, CombinedCentroid(ed, oldW, newFiles, newW, cc))
    ELSE [td |-> td,
          centroid |-> IF ed.centroid = None THEN NpNone ELSE ed.centroid,
          files |-> ed.files]

\* converter.py:101-130: a failing loader returns (None, tracked files); no new
\* file and a stored centroid returns the stored centroid; without a stored
\* centroid every current file counts as new.
ExpertData(td, g, ed, loadFails, cur, cc) ==
    IF loadFails THEN [td |-> td, centroid |-> None, files |-> ed.files]
    ELSE IF cur \ ed.files = {} /\ ed.centroid # None
    THEN [td |-> td, centroid |-> ed.centroid, files |-> ed.files]
    ELSE IF cur \ ed.files = {}
    THEN UpdateExpert(td, g, ed, cur, OldWeight(ed), NewWeight(cur, cc), cc)
    ELSE UpdateExpert(td, g, ed, cur \ ed.files, OldWeight(ed),
                      NewWeight(cur \ ed.files, cc), cc)

\* The entry of expert e of group g.
ExpertEntry(td, g, e) == Get(Get(td, g).experts, e)

\* With the entries in place (converter.py:99).
TrackedExpertData(td, g, e, loadFails, cur, cc) ==
    ExpertData(td, g, ExpertEntry(td, g, e), loadFails, cur, cc)

\* CentroidConverter.get_expert_data (converter.py:76-164).  loadFails: the
\* DirectoryLoader raised; cur: the files in the directory; cc: chunks per file.
\* The result is the mutated tracking data and the returned (centroid, files).
get_expert_data(td, g, e, loadFails, cur, cc) ==
    TrackedExpertData(EnsureEntries(td, g, e), g, e, loadFails, cur, cc)

(***************************************************************************)
(* CentroidConverter.process_all (converter.py:166-206).                   *)
(***************************************************************************)
\* The expert directories of group g, in iteration order.
RECURSIVE ExpertsOf(_, _, _)
ExpertsOf(g, ds, order) ==
    IF order = <<>> THEN <<>>
    ELSE IF Head(order) \in ds /\ Head(order)[1] = g
         THEN <<Head(order)[2]>> \o ExpertsOf(g, ds, Tail(order))
         ELSE ExpertsOf(g, ds, Tail(order))

\* The group directories, in iteration order.
GroupsOf(ds) == SelectSeq(GroupOrder, LAMBDA g : \E d \in ds : d[1] = g)

\* converter.py:192-195: an expert whose returned centroid is None is left out
\* of the group's lists; its weight is the number of returned files.
Collect(acc, r) ==
    IF r.centroid # None
    THEN [td |-> r.td,
          centroids |-> Append(acc.centroids, r.centroid),
          weights |-> Append(acc.weights, Cardinality(r.files))]
    ELSE [acc EXCEPT !.td = r.td]

\* converter.py:185-195: the inner loop over the expert directories of one group.
RECURSIVE ProcessExperts(_, _, _, _, _, _)
ProcessExperts(acc, g, es, failing, dd, cc) ==
    IF es = <<>> THEN acc
    ELSE ProcessExperts(
            Collect(acc, get_expert_data(acc.td, g, Head(es), <<g, Head(es)>> \in failing,
                                         dd[<<g, Head(es)>>], cc)),
            g, Tail(es), failing, dd, cc)

\* converter.py:200: the list [c * w for c, w in zip(centroids, weights)].
WeightedCentroids(cs, ws) == [i \in DOMAIN cs |-> RatScale(cs[i], ws[i])]

\* converter.py:197-202: the group centroid, the file-count-weighted mean of the
\* centroids collected in this pass.
GroupCentroid(cs, ws) == RatDiv(RatSum(WeightedCentroids(cs, ws)), SumSeq(ws))

\* np.array(None) * w raises TypeError (converter.py:200).
RaisesTypeError(cs) == \E i \in DOMAIN cs : cs[i] = NpNone

\* td[g]["centroid"] = centroid (converter.py:202).
PutGroupCentroid(td, g, centroid) == [td EXCEPT ![Find(td, g)].centroid = centroid]

\* converter.py:197-202 for one group: status "skip" without centroids, "raise"
\* on the TypeError, else "set" with the group centroid stored.
FinishGroup(r, g) ==
    IF r.centroids = <<>> THEN [td |-> r.td, raised |-> FALSE]
    ELSE IF RaisesTypeError(r.centroids) THEN [td |-> r.td, raised |-> TRUE]
    ELSE [td |-> PutGroupCentroid(r.td, g, GroupCentroid(r.centroids, r.weights)),
          raised |-> FALSE]

\* converter.py:174-202: the outer loop; raised is set when the pass dies with
\* the tracking data mutated so far and nothing saved.
RECURSIVE ProcessGroups(_, _, _, _, _, _)
ProcessGroups(st, gs, ds, failing, dd, cc) ==
    IF gs = <<>> \/ st.raised THEN st
    ELSE ProcessGroups(
            FinishGroup(ProcessExperts([td |-> st.td, centroids |-> <<>>, weights |-> <<>>],
                                       Head(gs), ExpertsOf(Head(gs), ds, DirOrder),
                                       failing, dd, cc),
                        Head(gs)),
            Tail(gs), ds, failing, dd, cc)

process_all(td, ds, failing, dd, cc) ==
    ProcessGroups([td |-> td, raised |-> FALSE], GroupsOf(ds), ds, failing, dd, cc)

(***************************************************************************)
(* The tracking file and CentroidConverter.__init__ (converter.py:11-40).  *)
(***************************************************************************)
AbsentFile == [kind |-> "absent", data |-> <<>>]
EmptyText == [kind |-> "empty", data |-> <<>>]
JsonText(td) == [kind |-> "json", data |-> td]

\* json.load / json.loads of a text: a value, or JSONDecodeError.
JsonLoad(text) ==
    IF text.kind = "json" THEN [ok |-> TRUE, data |-> text.data]
    ELSE [ok |-> FALSE, data |-> <<>>]

\* What a file object still yields after f.read() has consumed it: nothing.
RestAfterRead(text) == EmptyText

\* converter.py:24-37: content = f.read().strip() and then json.load(f) on the
\* same, already consumed, file object; JSONDecodeError gives {}.
LoadTracking(file) ==
    IF file.kind = "absent" THEN EmptyTracking
    ELSE IF file.kind # "empty"
         THEN LET r == JsonLoad(RestAfterRead(file))
              IN  IF r.ok THEN r.data ELSE EmptyTracking
         ELSE EmptyTracking

\* converter.py:42-45.
save_tracking_data(td) == JsonText(td)

\* A pass that saves in a finally clause: what was processed before the
\* failure is written too.
PersistAfter_Partial(file, r) == save_tracking_data(r.td)

\* converter.py:204-205: the one save of a pass is the statement after the
\* loops, which a pass that raised inside them never reaches.
PersistAfter(file, r) == IF r.raised THEN file ELSE save_tracking_data(r.td)

(***************************************************************************)
(* CentroidVisualizer.generate_centroid_vectors_file (visualizer.py:18-84).*)
(* Each table of the artifact is the sequence of its "key": value lines.   *)
(***************************************************************************)
NoArtifact == [exists |-> FALSE, GROUP_CENTROIDS |-> <<>>, EXPERT_CENTROIDS |-> <<>>,
               EXPERT_TO_GROUP |-> <<>>, GROUP_TO_EXPERTS |-> <<>>]

Line(k, v) == [name |-> k, value |-> v]

RECURSIVE Concat(_)
Concat(ss) == IF ss = <<>> THEN <<>> ELSE Head(ss) \o Concat(Tail(ss))

\* visualizer.py:38-43.
GroupCentroidLines(td) ==
    Concat([i \in DOMAIN td |->
        IF td[i].centroid # None THEN <<Line(td[i].name, td[i].centroid)>> ELSE <<>>])

\* visualizer.py:49-55.
ExpertCentroidLines(td) ==
    Concat([i \in DOMAIN td |->
        Concat([j \in DOMAIN td[i].experts |->
            IF td[i].experts[j].centroid # None
            THEN <<Line(td[i].experts[j].name, td[i].experts[j].centroid)>>
            ELSE <<>>])])

\* visualizer.py:60-65.
ExpertToGroupLines(td) ==
    Concat([i \in DOMAIN td |->
        [j \in DOMAIN td[i].experts |-> Line(td[i].experts[j].name, td[i].name)]])

\* visualizer.py:70-76.
GroupToExpertsLines(td) ==
    [i \in DOMAIN td |-> Line(td[i].name, Names(td[i].experts))]

generate_centroid_vectors_file(td) ==
    [exists |-> TRUE,
     GROUP_CENTROIDS |-> GroupCentroidLines(td),
     EXPERT_CENTROIDS |-> ExpertCentroidLines(td),
     EXPERT_TO_GROUP |-> ExpertToGroupLines(td),
     GROUP_TO_EXPERTS |-> GroupToExpertsLines(td)]

(***************************************************************************)
(* Ingestion: the operations on the data directory, the converter object,  *)
(* the tracking file and the artifact.                                     *)
(***************************************************************************)
IdleOp == [op |-> "none", ok |-> TRUE]

IngestInit ==
    /\ chunkCount \in [Files -> 1..MaxChunks]
    /\ dirs = [d \in ExpertDirs |-> {}]
    /\ present = {}
    /\ conv = EmptyTracking
    /\ trackingFile = AbsentFile
    /\ artifact = NoArtifact
    /\ passes = 0
    /\ fsOps = 0
    /\ loadFailures = 0
    /\ lastOp = IdleOp

\* A PDF is put into an expert directory (created when it is not there yet).
AddFile(d, f) ==
    /\ fsOps < MaxFsOps
    /\ fsOps' = fsOps + 1
    /\ f \notin dirs[d]
    /\ dirs' = [dirs EXCEPT ![d] = @ \cup {f}]
    /\ present' = present \cup {d}
    /\ lastOp' = [op |-> "add_file", ok |-> TRUE]
    /\ UNCHANGED <<chunkCount, conv, trackingFile, artifact, passes, loadFailures>>
    /\ UNCHANGED <<routeVars, sessionVars, cycleVars>>
    /\ UNCHANGED restVars

\* A PDF is removed from an expert directory.
RemoveFile(d, f) ==
    /\ fsOps < MaxFsOps
    /\ fsOps' = fsOps + 1
    /\ f \in dirs[d]
    /\ dirs' = [dirs EXCEPT ![d] = @ \ {f}]
    /\ lastOp' = [op |-> "remove_file", ok |-> TRUE]
    /\ UNCHANGED <<chunkCount, present, conv, trackingFile, artifact, passes, loadFailures>>
    /\ UNCHANGED <<routeVars, sessionVars, cycleVars>>
    /\ UNCHANGED restVars

\* CentroidConverter(DATA_DIR, TRACKING_FILE): a new converter object.
Construct ==
    /\ conv' = LoadTracking(trackingFile)
    /\ lastOp' = [op |-> "construct", ok |-> TRUE]
    /\ UNCHANGED <<chunkCount, dirs, present, trackingFile, artifact, passes, fsOps, loadFailures>>
    /\ UNCHANGED <<routeVars, sessionVars, cycleVars>>
    /\ UNCHANGED restVars

\* converter.process_all(), the DirectoryLoader failing for the directories in
\* failing; the tracking file is rewritten only when the loop ends normally.
ProcessAll(failing) ==
    /\ passes < MaxPasses
    /\ loadFailures + Cardinality(failing) <= MaxLoadFailures
    /\ loadFailures' = loadFailures + Cardinality(failing)
    /\ LET r == process_all(conv, present, failing, dirs, chunkCount)
       IN  /\ conv' = r.td
           /\ trackingFile' = PersistAfter(trackingFile, r)
           /\ lastOp' = [op |-> "process_all", ok |-> ~r.raised]
    /\ passes' = passes + 1
    /\ UNCHANGED <<chunkCount, dirs, present, artifact, fsOps>>
    /\ UNCHANGED <<routeVars, sessionVars, cycleVars>>
    /\ UNCHANGED restVars

\* visualizer.generate_centroid_vectors_file(): FileNotFoundError without a
\* tracking file, JSONDecodeError on one that does not parse.
Generate ==
    /\ LET r == JsonLoad(trackingFile)
       IN  /\ artifact' = IF r.ok THEN generate_centroid_vectors_file(r.data) ELSE artifact
           /\ lastOp' = [op |-> "generate", ok |-> r.ok]
    /\ UNCHANGED <<chunkCount, dirs, present, conv, trackingFile, passes, fsOps, loadFailures>>
    /\ UNCHANGED <<routeVars, sessionVars, cycleVars>>
    /\ UNCHANGED restVars

(***************************************************************************)
(* The router: two-stage nearest-centroid search over a snapshot of the    *)
(* four lookup tables (spec 4.2; router/multi_layer_router.py is not among *)
(* the sources).  A table is a dict: a sequence of lines with distinct     *)
(* names.                                                                  *)
(***************************************************************************)
\* cos(q, a) >= cos(q, b) for non-zero a and b, without square roots:
\* (q.a)/|a| >= (q.b)/|b|, by the signs of the dot products and their squares.
CosGE(q, a, b) ==
    LET da == Dot(q, a)
        db == Dot(q, b)
        l == da * da * Dot(b, b)
        r == db * db * Dot(a, a)
    IN  IF da >= 0 /\ db <= 0 THEN TRUE
        ELSE IF da < 0 /\ db >= 0 THEN FALSE
        ELSE IF da >= 0 THEN l >= r
        ELSE l <= r

CosGT(q, a, b) == ~CosGE(q, b, a)

\* The argmax of cosine similarity over the lines of a table, the earliest line
\* winning a tie (insertion order).
RECURSIVE ArgMaxFrom(_, _, _, _)
ArgMaxFrom(q, lines, i, best) ==
    IF i > Len(lines) THEN best
    ELSE IF CosGT(q, lines[i].value.n, lines[best].value.n)
         THEN ArgMaxFrom(q, lines, i + 1, i)
         ELSE ArgMaxFrom(q, lines, i + 1, best)

ArgMax(q, lines) == lines[ArgMaxFrom(q, lines, 2, 1)].name

\* The EXPERT_CENTROIDS lines of the members of a group, in member order.
MemberLines(snap, g) ==
    LET members == Get(snap.GROUP_TO_EXPERTS, g).value
    IN  [i \in DOMAIN members |-> Get(snap.EXPERT_CENTROIDS, members[i])]

\* A mis-routing: the best expert over all groups, and the group it belongs to.
RouteFlat(snap, q) ==
    IF snap.GROUP_CENTROIDS = <<>> THEN [ok |-> FALSE, group |-> "", expert |-> ""]
    ELSE LET e == ArgMax(q, snap.EXPERT_CENTROIDS)
         IN  [ok |-> TRUE, group |-> Get(snap.EXPERT_TO_GROUP, e).value, expert |-> e]

\* A router with a confidence threshold: no result unless the best expert's
\* similarity to the query is positive.
RouteThreshold(snap, q) ==
    IF snap.GROUP_CENTROIDS = <<>> THEN [ok |-> FALSE, group |-> "", expert |-> ""]
    ELSE LET g == ArgMax(q, snap.GROUP_CENTROIDS)
             e == ArgMax(q, MemberLines(snap, g))
         IN  IF Dot(q, Get(snap.EXPERT_CENTROIDS, e).value.n) > 0
             THEN [ok |-> TRUE, group |-> g, expert |-> e]
             ELSE [ok |-> FALSE, group |-> "", expert |-> ""]

\* QueryRouter: NoExpertsAvailable on a snapshot without groups; else the best
\* group, then the best expert among that group's members.
Route(snap, q) ==
    IF snap.GROUP_CENTROIDS = <<>> THEN [ok |-> FALSE, group |-> "", expert |-> ""]
    ELSE LET g == ArgMax(q, snap.GROUP_CENTROIDS)
         IN  [ok |-> TRUE, group |-> g, expert |-> ArgMax(q, MemberLines(snap, g))]

\* The number of cosine similarities the two-stage search computes: none on a
\* snapshot without groups, else one per group and one per member of the best.
Similarities(snap, q) ==
    IF snap.GROUP_CENTROIDS = <<>> THEN 0
    ELSE Len(snap.GROUP_CENTROIDS)
         + Len(MemberLines(snap, ArgMax(q, snap.GROUP_CENTROIDS)))

\* Centroids and query embeddings the routing claims are checked on.
SampleVectors == {<<1, 0>>, <<0, 1>>, <<1, 1>>, <<-1, 1>>}

\* A snapshot of group g1 = {a, b} and, with two groups, g2 = {c}.
SampleSnapshot(gc, ec, two) ==
    [GROUP_CENTROIDS |->
        <<Line("g1", RatOfVec(gc["g1"]))>>
        \o (IF two THEN <<Line("g2", RatOfVec(gc["g2"]))>> ELSE <<>>),
     EXPERT_CENTROIDS |->
        <<Line("a", RatOfVec(ec["a"])), Line("b", RatOfVec(ec["b"]))>>
        \o (IF two THEN <<Line("c", RatOfVec(ec["c"]))>> ELSE <<>>),
     EXPERT_TO_GROUP |->
        <<Line("a", "g1"), Line("b", "g1")>>
        \o (IF two THEN <<Line("c", "g2")>> ELSE <<>>),
     GROUP_TO_EXPERTS |->
        <<Line("g1", <<"a", "b">>)>>
        \o (IF two THEN <<Line("g2", <<"c">>)>> ELSE <<>>)]

EmptySnapshot ==
    [GROUP_CENTROIDS |-> <<>>, EXPERT_CENTROIDS |-> <<>>,
     EXPERT_TO_GROUP |-> <<>>, GROUP_TO_EXPERTS |-> <<>>]

NotRouted == [done |-> FALSE, q |-> ZeroVec, ok |-> FALSE, group |-> "", expert |-> ""]

RouteInit ==
    /\ \/ snapshot = EmptySnapshot
       \/ \E gc \in [{"g1", "g2"} -> SampleVectors],
             ec \in [{"a", "b", "c"} -> SampleVectors], two \in BOOLEAN :
             snapshot = SampleSnapshot(gc, ec, two)
    /\ routed = NotRouted

\* route(q) on the loaded snapshot.
RouteQuery(q) ==
    /\ LET r == Route(snapshot, q)
       IN  routed' = [done |-> TRUE, q |-> q, ok |-> r.ok, group |-> r.group,
                      expert |-> r.expert]
    /\ UNCHANGED <<snapshot, ingestVars, sessionVars, cycleVars>>
    /\ UNCHANGED restVars

(***************************************************************************)
(* SessionManager (session_manager.py).  A session id is the sequence of   *)
(* its parts between underscores: "user_default" is <<"user", "default">>. *)
(***************************************************************************)
max_history == 5

DefaultSession == <<"user", "default">>
SessionIds == {DefaultSession, <<"abc">>}

\* Session ids with several underscores: "user_1_x" and "user_1_y".
LongSessionIds == {<<"user", "1", "x">>, <<"user", "1", "y">>}
AllSessionIds == SessionIds \cup LongSessionIds

\* time.strftime("%Y-%m-%d") followed by ".jsonl"; it holds no underscore.
DateFile == "2025-04-06.jsonl"

\* session_manager.py:181-182: the log file f"{user_id}_{date_str}.jsonl".
LogFileName(uid) == uid \o <<DateFile>>

\* session_manager.py:35: filename.split("_", 2)[0] + "_" + filename.split("_", 2)[1].
UserIdOfFile(fname) == <<fname[1], fname[2]>>

Message(ts, query, answer, context, expert) ==
    [kind |-> "message", timestamp |-> ts, query |-> query, response |-> answer,
     conversation_context |-> context, expert |-> expert]

\* session_manager.py:163-167: the "Session cleared" system event.
ClearedEvent(ts) ==
    [kind |-> "system_event", timestamp |-> ts, query |-> "", response |-> "",
     conversation_context |-> <<>>, expert |-> ""]

\* session_manager.py:48: 'query' in message and 'response' in message.
IsMessage(entry) == entry.kind = "message"

\* s[-n:] for n > 0.
LastN(s, n) == IF Len(s) <= n THEN s ELSE SubSeq(s, Len(s) - n + 1, Len(s))

\* session_manager.py:100-110: self.sessions.get(user_id, []).
get_history(ss, uid) == IF uid \in DOMAIN ss THEN ss[uid] ELSE <<>>

\* session_manager.py:172-186: the line appended to the user's log file.
log_conversation(lg, uid, entry) ==
    LET f == LogFileName(uid)
    IN  IF f \in DOMAIN lg THEN [lg EXCEPT ![f] = Append(@, entry)]
        ELSE lg @@ (f :> <<entry>>)

\* session_manager.py:96-98: the sliding window.
Trim(h) == IF Len(h) > max_history THEN LastN(h, max_history) ELSE h

\* An add_message whose log line goes to the head of the file.
add_message_LogAhead(ss, lg, uid, msg, writeFails) ==
    LET appended == Append(get_history(ss, uid), msg)
        put(h) == IF uid \in DOMAIN ss THEN [ss EXCEPT ![uid] = h] ELSE ss @@ (uid :> h)
        f == LogFileName(uid)
    IN  [sessions |-> put(IF writeFails THEN appended ELSE Trim(appended)),
         logs |-> IF writeFails THEN lg
                  ELSE IF f \in DOMAIN lg THEN [lg EXCEPT ![f] = <<msg>> \o @]
                  ELSE lg @@ (f :> <<msg>>),
         raised |-> writeFails]

\* session_manager.py:62-98.  writeFails: open() of the log file raises, which
\* ends add_message after the append and before the window is cut.
add_message(ss, lg, uid, msg, writeFails) ==
    LET appended == Append(get_history(ss, uid), msg)
        put(h) == IF uid \in DOMAIN ss THEN [ss EXCEPT ![uid] = h] ELSE ss @@ (uid :> h)
    IN  IF writeFails
        THEN [sessions |-> put(appended), logs |-> lg, raised |-> TRUE]
        ELSE [sessions |-> put(Trim(appended)),
              logs |-> log_conversation(lg, uid, msg), raised |-> FALSE]

\* session_manager.py:154-170.  The event is logged before the history is
\* emptied, so a failing write leaves the history as it was.
clear_session(ss, lg, uid, ts, writeFails) ==
    IF uid \notin DOMAIN ss THEN [sessions |-> ss, logs |-> lg, raised |-> FALSE]
    ELSE IF writeFails THEN [sessions |-> ss, logs |-> lg, raised |-> TRUE]
    ELSE [sessions |-> [ss EXCEPT ![uid] = <<>>],
          logs |-> log_conversation(lg, uid, ClearedEvent(ts)), raised |-> FALSE]

\* The messages of a set, by increasing timestamp (timestamps are distinct).
RECURSIVE SortByTimestamp(_)
SortByTimestamp(ms) ==
    IF ms = {} THEN <<>>
    ELSE LET m == CHOOSE x \in ms : \A y \in ms : x.timestamp <= y.timestamp
         IN  <<m>> \o SortByTimestamp(ms \ {m})

\* session_manager.py:25-60: every *.jsonl file is read into the session named
\* by the first two parts of its file name; system events are skipped; each
\* session keeps its max_history latest messages.
load_sessions_from_disk(lg) ==
    LET uids == {UserIdOfFile(f) : f \in DOMAIN lg}
        loaded(u) == {m \in UNION {{lg[f][i] : i \in DOMAIN lg[f]} :
                                   f \in {x \in DOMAIN lg : UserIdOfFile(x) = u}} :
                      IsMessage(m)}
    IN  [u \in uids |-> LastN(SortByTimestamp(loaded(u)), max_history)]

\* session_manager.py:133-152: the queries of the last three exchanges.
\* " ".join(parts): a text is the sequence of its pieces, "" is <<>>.
RECURSIVE SpaceJoin(_)
SpaceJoin(parts) ==
    IF parts = <<>> THEN <<>>
    ELSE IF Len(parts) = 1 THEN <<Head(parts)>>
    ELSE <<Head(parts), " ">> \o SpaceJoin(Tail(parts))

\* A context made of the whole window instead of its last three exchanges.
get_conversation_context_WholeWindow(ss, uid) ==
    LET h == get_history(ss, uid)
    IN  IF h = <<>> THEN <<>> ELSE SpaceJoin([i \in DOMAIN h |-> h[i].query])

get_conversation_context(ss, uid) ==
    LET h == get_history(ss, uid)
        last == LastN(h, 3)
    IN  IF h = <<>> THEN <<>> ELSE SpaceJoin([i \in DOMAIN last |-> last[i].query])

(***************************************************************************)
(* The operations of a SessionManager and of the process that holds it.    *)
(***************************************************************************)
NoSessOp == [op |-> "none", uid |-> <<>>, raised |-> FALSE]

SessionInit ==
    /\ sessions = <<>>
    /\ logs = <<>>
    /\ clock = 0
    /\ recorded = [uid \in AllSessionIds |-> <<>>]
    /\ writeFailures = 0
    /\ reloads = 0
    /\ clears = 0
    /\ sessOp = NoSessOp

\* session_manager.add_message(uid, query, response, context, documents, expert).
AddMessage(uid, query, answer, expert, writeFails) ==
    /\ clock < MaxAdds
    /\ writeFails => writeFailures < MaxWriteFailures
    /\ LET msg == Message(clock + 1, query, answer,
                          get_conversation_context(sessions, uid), expert)
           r == add_message(sessions, logs, uid, msg, writeFails)
       IN  /\ sessions' = r.sessions
           /\ logs' = r.logs
           /\ recorded' = [recorded EXCEPT ![uid] = Append(@, msg)]
           /\ sessOp' = [op |-> "add_message", uid |-> uid, raised |-> r.raised]
    /\ clock' = clock + 1
    /\ writeFailures' = writeFailures + (IF writeFails THEN 1 ELSE 0)
    /\ UNCHANGED <<reloads, clears, ingestVars, routeVars, cycleVars>>
    /\ UNCHANGED restVars

\* session_manager.clear_session(uid).
ClearSession(uid, writeFails) ==
    /\ clears < MaxClears
    /\ clears' = clears + 1
    /\ writeFails => (writeFailures < MaxWriteFailures /\ uid \in DOMAIN sessions)
    /\ LET r == clear_session(sessions, logs, uid, clock, writeFails)
       IN  /\ sessions' = r.sessions
           /\ logs' = r.logs
           /\ recorded' = IF r.raised THEN recorded ELSE [recorded EXCEPT ![uid] = <<>>]
           /\ sessOp' = [op |-> "clear_session", uid |-> uid, raised |-> r.raised]
    /\ writeFailures' = writeFailures + (IF writeFails THEN 1 ELSE 0)
    /\ UNCHANGED <<clock, reloads, ingestVars, routeVars, cycleVars>>
    /\ UNCHANGED restVars

\* The service restarts: SessionManager("tracking") reads the log directory.
Reload ==
    /\ reloads < MaxReloads
    /\ sessions' = load_sessions_from_disk(logs)
    /\ recorded' = [uid \in AllSessionIds |-> get_history(sessions', uid)]
    /\ reloads' = reloads + 1
    /\ sessOp' = [op |-> "reload", uid |-> <<>>, raised |-> FALSE]
    /\ UNCHANGED <<logs, clock, writeFailures, clears, ingestVars, routeVars, cycleVars>>
    /\ UNCHANGED restVars

(***************************************************************************)
(* Retrieval and generation (chromadb_handler.py, llm_service.py).  A text *)
(* is the sequence of its characters; a retrieved context is tagged with   *)
(* its shape: a list of chunk lists, or a flat list of chunk strings.      *)
(***************************************************************************)
DEFAULT_TOP_K == 3

\* The chunks of a collection, nearest first.
Corpus == << <<"a", "b">>, <<"c">>, <<"d", "e", "f", "g">> >>

\* A mis-handling: a failing vector store answered with the nearest chunk.
get_similar_documents_Stale(fails, k) == <<SubSeq(Corpus, 1, IF fails THEN 1 ELSE k)>>

\* chromadb_handler.py:73-98: the query result's "documents", one list of chunks
\* per query embedding; {"documents": []} when the vector store raises.
get_similar_documents(fails, k) == IF fails THEN <<>> ELSE <<SubSeq(Corpus, 1, k)>>

Shapes == {"nested", "flat"}

\* The context handed to generate_response: results["documents"] as it is, or
\* its first (only) list of chunks.
ContextOf(shape, documents) ==
    IF documents = <<>> THEN [shape |-> shape, items |-> <<>>]
    ELSE IF shape = "nested" THEN [shape |-> shape, items |-> documents]
    ELSE [shape |-> shape, items |-> documents[1]]

\* "\n\n".join(texts).
RECURSIVE ParaJoin(_)
ParaJoin(texts) ==
    IF texts = <<>> THEN <<>>
    ELSE IF Len(texts) = 1 THEN Head(texts)
    ELSE Head(texts) \o <<"\n\n">> \o ParaJoin(Tail(texts))

\* llm_service.py:32-36.
ContextText(context) ==
    IF context.items # <<>> /\ context.shape = "nested"
    THEN ParaJoin(Concat(context.items))
    ELSE ParaJoin(context.items)

KeyMissingAnswer == "OpenAI API key not found. Please set the OPENAI_API_KEY environment variable."
GenerationError == "Error generating response: generation failed"
IndexErrorAnswer == "Error generating response: list index out of range"
GeneratedAnswer == "generated answer"
NoResponseAnswer == "No response generated"
NoAnswerProvided == "No answer provided"

\* A response dict: "answer" is always present, "sources" only with hasSources.
Response(answer, hasSources, sources) ==
    [hasAnswer |-> TRUE, answer |-> answer, hasSources |-> hasSources, sources |-> sources]
EmptyResponse == [hasAnswer |-> FALSE, answer |-> "", hasSources |-> FALSE, sources |-> 0]

\* llm_service.py:65: len(context[0]), whatever context[0] is.
SourcesOf(context) == Len(context.items[1])

\* A mis-handling: the failed call is answered with the sources counted.
generate_response_CountsOnFailure(hasKey, context, apiFails) ==
    IF ~hasKey
    THEN [response |-> Response(KeyMissingAnswer, FALSE, 0), invoked |-> FALSE,
          text |-> <<>>]
    ELSE IF apiFails
    THEN [response |-> Response(GenerationError, TRUE, Len(context.items)),
          invoked |-> TRUE, text |-> ContextText(context)]
    ELSE IF context.items = <<>>
    THEN [response |-> Response(IndexErrorAnswer, FALSE, 0), invoked |-> TRUE,
          text |-> ContextText(context)]
    ELSE [response |-> Response(GeneratedAnswer, TRUE, SourcesOf(context)),
          invoked |-> TRUE, text |-> ContextText(context)]

\* llm_service.py:14-69.  hasKey: OPENAI_API_KEY is set; apiFails: the chat
\* completion call raises.  invoked: the call was made; text: its context text.
generate_response(hasKey, context, apiFails) ==
    IF ~hasKey
    THEN [response |-> Response(KeyMissingAnswer, FALSE, 0), invoked |-> FALSE,
          text |-> <<>>]
    ELSE IF apiFails
    THEN [response |-> Response(GenerationError, FALSE, 0), invoked |-> TRUE,
          text |-> ContextText(context)]
    ELSE IF context.items = <<>>
    THEN [response |-> Response(IndexErrorAnswer, FALSE, 0), invoked |-> TRUE,
          text |-> ContextText(context)]
    ELSE [response |-> Response(GeneratedAnswer, TRUE, SourcesOf(context)),
          invoked |-> TRUE, text |-> ContextText(context)]

(***************************************************************************)
(* The query-answer cycle: process_query (backend/api/main.py:61-82) around *)
(* route_query (spec 4.3; router/multi_layer_router.py is not among the    *)
(* sources).                                                               *)
(***************************************************************************)
NoSessionId == <<>>
RequestSessionIds == {NoSessionId, <<"abc">>}
Queries == {"hello", "new_session", "New_Session"}

\* str.lower() on the query texts of the model.
Lower(query) == IF query = "New_Session" THEN "new_session" ELSE query

\* The embedding model applied to a query text.
Embed(query) == IF query = "hello" THEN <<0, 1>> ELSE <<1, 0>>

\* The snapshot the service has loaded.
ServiceSnapshot ==
    SampleSnapshot([g \in {"g1", "g2"} |-> IF g = "g1" THEN <<1, 0>> ELSE <<0, 1>>],
                   [e \in {"a", "b", "c"} |->
                        IF e = "a" THEN <<1, 0>> ELSE IF e = "b" THEN <<1, 1>> ELSE <<0, 1>>],
                   TRUE)

\* A loaded snapshot none of whose centroids is similar to the query "hello".
FarSnapshot ==
    SampleSnapshot([g \in {"g1", "g2"} |-> <<1, 0>>],
                   [e \in {"a", "b", "c"} |-> IF e = "a" THEN <<1, -1>> ELSE <<1, 0>>],
                   FALSE)

\* The snapshots a service may have loaded at startup.
ServiceSnapshots == {ServiceSnapshot, FarSnapshot, EmptySnapshot}

\* main.py:72-75: best_expert.replace("_", " ").title(), "unknown" without one.
FormatExpert(e) ==
    IF e = "" THEN "unknown"
    ELSE IF e = "a" THEN "A" ELSE IF e = "b" THEN "B" ELSE IF e = "c" THEN "C" ELSE e

\* main.py:65: request.session_id or "user_default".
SessionIdOf(requested) == IF requested = NoSessionId THEN DefaultSession ELSE requested

\* main.py:77-82: the returned dict, with the defaults of response.get.
QueryResponse(response, sid, best_expert) ==
    [answer |-> IF response.hasAnswer THEN response.answer ELSE NoResponseAnswer,
     session_id |-> sid,
     expert |-> FormatExpert(best_expert),
     sources |-> IF response.hasSources THEN response.sources ELSE 0]

NoCycle ==
    [done |-> FALSE, control |-> FALSE, aborted |-> FALSE, query |-> "",
     group |-> "", expert |-> "", retrievalFailed |-> FALSE, retrieved |-> 0,
     shape |-> "", similarities |-> 0, genCalled |-> FALSE, contextText |-> <<>>, genInvoked |-> FALSE,
     genFailed |-> FALSE, genText |-> <<>>, recordedExchange |-> FALSE,
     response |-> [answer |-> "", session_id |-> <<>>, expert |-> "", sources |-> 0]]

\* route_query step 1: the control token clears the session and ends the cycle;
\* a failure of the session collaborator is caught at the call.
ControlCycle(sid, query, writeFails) ==
    LET r == clear_session(sessions, logs, sid, clock, writeFails)
    IN  /\ sessions' = r.sessions
        /\ logs' = r.logs
        /\ recorded' = IF r.raised THEN recorded ELSE [recorded EXCEPT ![sid] = <<>>]
        /\ sessOp' = [op |-> "clear_session", uid |-> sid, raised |-> r.raised]
        /\ cycle' = [NoCycle EXCEPT !.done = TRUE, !.control = TRUE, !.query = query,
                        !.response = QueryResponse(EmptyResponse, sid, "")]
        /\ UNCHANGED clock

\* route_query steps 2-9: context, embedding, routing, retrieval, generation and
\* the recording of the exchange; collaborator failures are caught at the call.
AnswerCycle(sid, query, retrievalFails, k, shape, apiFails, writeFails) ==
    LET ctx == get_conversation_context(sessions, sid)
        rt == Route(snapshot, Embed(query))
        documents == get_similar_documents(retrievalFails, k)
        context == ContextOf(shape, documents)
        gen == generate_response(apiKeySet, context, apiFails)
        msg == Message(clock + 1, query,
                       IF gen.response.hasAnswer THEN gen.response.answer
                       ELSE NoAnswerProvided,
                       ctx, rt.expert)
        r == add_message(sessions, logs, sid, msg, writeFails)
    IN  /\ rt.ok
        /\ sessions' = r.sessions
        /\ logs' = r.logs
        /\ recorded' = [recorded EXCEPT ![sid] = Append(@, msg)]
        /\ sessOp' = [op |-> "add_message", uid |-> sid, raised |-> r.raised]
        /\ clock' = clock + 1
        /\ cycle' = [done |-> TRUE, control |-> FALSE, aborted |-> FALSE, query |-> query,
                     group |-> rt.group, expert |-> rt.expert,
                     retrievalFailed |-> retrievalFails,
                     retrieved |-> IF retrievalFails THEN 0 ELSE k,
                     shape |-> shape,
                     similarities |-> Similarities(snapshot, Embed(query)),
                     genCalled |-> TRUE,
                     contextText |-> ContextText(context),
                     genInvoked |-> gen.invoked,
                     genFailed |-> gen.invoked /\ apiFails,
                     genText |-> gen.text,
                     recordedExchange |-> TRUE,
                     response |-> QueryResponse(gen.response, sid, rt.expert)]

\* route_query step 4 on a snapshot without groups: NoExpertsAvailable ends the
\* cycle, after the context was read and before anything is retrieved, generated
\* or recorded; process_query passes the failure on to its caller.
AbortCycle(sid, query) ==
    /\ ~Route(snapshot, Embed(query)).ok
    /\ cycle' = [NoCycle EXCEPT !.done = TRUE, !.aborted = TRUE, !.query = query,
                    !.similarities = Similarities(snapshot, Embed(query))]
    /\ UNCHANGED <<sessions, logs, clock, recorded, sessOp>>

\* POST /api/query.
ProcessQuery(requested, query, retrievalFails, k, shape, apiFails, writeFails) ==
    /\ cycles < MaxCycles
    /\ cycles' = cycles + 1
    /\ writeFails => writeFailures < MaxWriteFailures
    /\ writeFailures' = writeFailures + (IF writeFails THEN 1 ELSE 0)
    /\ LET sid == SessionIdOf(requested)
       IN  IF Lower(query) = "new_session"
           THEN /\ retrievalFails = FALSE /\ k = 0 /\ shape = "nested" /\ apiFails = FALSE
                /\ writeFails => sid \in DOMAIN sessions
                /\ ControlCycle(sid, query, writeFails)
           ELSE IF Route(snapshot, Embed(query)).ok
           THEN /\ retrievalFails => k = 0
                /\ AnswerCycle(sid, query, retrievalFails, k, shape, apiFails, writeFails)
           ELSE /\ retrievalFails = FALSE /\ k = 0 /\ shape = "nested" /\ apiFails = FALSE
                /\ writeFails = FALSE
                /\ AbortCycle(sid, query)
    /\ UNCHANGED <<apiKeySet, reloads, clears, ingestVars, routeVars>>
    /\ UNCHANGED restVars

QueryInit ==
    /\ SessionInit
    /\ apiKeySet \in BOOLEAN
    /\ cycle = NoCycle
    /\ cycles = 0

(***************************************************************************)
(* The accuracy evaluator: process_samples (src/main.py:30-104) around the *)
(* router's accuracy-check mode (spec 4.2, 4.4; the router is not among    *)
(* the sources).                                                           *)
(***************************************************************************)
EvalExperts == {"a", "b", "c"}
EvalQueries == {<<1, 0>>, <<0, 1>>, <<1, 1>>}

\* The labelled sets: a dict of one or two expected experts, each with up to
\* MaxSamples sample queries.
SampleSets ==
    LET qss == UNION {[1..n -> EvalQueries] : n \in 0..MaxSamples}
    IN  {<<Line(x, qs)>> : x \in EvalExperts, qs \in qss}
        \cup {ss \in {<<Line(x, qs), Line(y, rs)>> :
                          x \in EvalExperts, y \in EvalExperts, qs \in qss, rs \in qss} :
                  ss[1].name # ss[2].name}

\* An accuracy mode that lets the label decide: the expected expert is returned
\* whenever the snapshot knows it.
RouteAccuracy_Steered(snap, q, check_accuracy, expected_expert) ==
    LET r == Route(snap, q)
        steer == check_accuracy /\ r.ok /\ Has(snap.EXPERT_CENTROIDS, expected_expert)
        e == IF steer THEN expected_expert ELSE r.expert
    IN  [ok |-> r.ok,
         group |-> IF steer THEN Get(snap.EXPERT_TO_GROUP, e).value ELSE r.group,
         expert |-> e,
         has_is_correct |-> check_accuracy /\ r.ok,
         is_correct |-> check_accuracy /\ r.ok /\ e = expected_expert]

\* The router in accuracy-check mode: the same dispatch as Route, and with
\* check_accuracy the flag is_correct, whether the expert is the expected one.
RouteAccuracy(snap, q, check_accuracy, expected_expert) ==
    LET r == Route(snap, q)
    IN  [ok |-> r.ok, group |-> r.group, expert |-> r.expert,
         has_is_correct |-> check_accuracy /\ r.ok,
         is_correct |-> check_accuracy /\ r.ok /\ r.expert = expected_expert]

\* main.py:49-53.
NewMetrics(expert, queries) ==
    [name |-> expert, total |-> Len(queries), correct |-> 0, incorrect_routings |-> <<>>]

\* A tally that also counts a correct routing as a confusion.
Tally_CountsBoth(metrics, is_correct, routed_expert) ==
    LET ir == metrics.incorrect_routings
        n == IF Has(ir, routed_expert) THEN Get(ir, routed_expert).value ELSE 0
    IN  [metrics EXCEPT !.correct = IF is_correct THEN @ + 1 ELSE @,
                        !.incorrect_routings = Put(ir, Line(routed_expert, n + 1))]

\* main.py:68-77: one more correct routing, or one more routing to routed_expert.
Tally(metrics, is_correct, routed_expert) ==
    LET ir == metrics.incorrect_routings
        n == IF Has(ir, routed_expert) THEN Get(ir, routed_expert).value ELSE 0
    IN  IF is_correct THEN [metrics EXCEPT !.correct = @ + 1]
        ELSE [metrics EXCEPT !.incorrect_routings = Put(ir, Line(routed_expert, n + 1))]

NoResponse ==
    [done |-> FALSE, q |-> ZeroVec, expected |-> "", group |-> "", expert |-> "",
     is_correct |-> FALSE]

\* phase: "idle" before process_samples runs, "experts" at the head of the
\* outer loop, "queries" at the head of the inner loop, then "done" or "raised".
NoEval ==
    [phase |-> "idle", e |-> 0, i |-> 0, results |-> <<>>, overall_correct |-> 0,
     overall_total |-> 0, processed |-> FALSE, last |-> NoResponse]

EvalIdle == samples = <<>> /\ eval = NoEval

\* main.py:45-53: the next expert of the labelled set gets its metrics.
BeginExpert ==
    /\ eval.phase = "experts"
    /\ eval.e < Len(samples)
    /\ LET next == samples[eval.e + 1]
       IN  eval' = [eval EXCEPT
                !.e = @ + 1, !.i = 0,
                !.results = Append(@, NewMetrics(next.name, next.value)),
                !.phase = IF Len(next.value) = 0 THEN "experts" ELSE "queries"]
    /\ UNCHANGED <<samples, ingestVars, routeVars, sessionVars, cycleVars, passVars,
                   concVars>>

\* main.py:56-82: one sample is routed in accuracy-check mode and tallied; a
\* failure of route_query leaves process_samples.
EvalSample ==
    /\ eval.phase = "queries"
    /\ LET expert == samples[eval.e].name
           queries == samples[eval.e].value
           q == queries[eval.i + 1]
           r == RouteAccuracy(snapshot, q, TRUE, expert)
           is_correct == r.has_is_correct /\ r.is_correct
       IN  IF ~r.ok THEN eval' = [eval EXCEPT !.phase = "raised"]
           ELSE eval' = [eval EXCEPT
                    !.i = @ + 1,
                    !.results = [@ EXCEPT ![eval.e] = Tally(@, is_correct, r.expert)],
                    !.overall_correct = IF is_correct THEN @ + 1 ELSE @,
                    !.overall_total = @ + 1,
                    !.phase = IF eval.i + 1 = Len(queries) THEN "experts" ELSE "queries",
                    !.last = [done |-> TRUE, q |-> q, expected |-> expert,
                              group |-> r.group, expert |-> r.expert,
                              is_correct |-> is_correct]]
    /\ UNCHANGED <<samples, ingestVars, routeVars, sessionVars, cycleVars, passVars,
                   concVars>>

\* main.py:84-104: the report; correct / total of an expert without samples is
\* a ZeroDivisionError when any sample was processed.
Report ==
    /\ eval.phase = "experts"
    /\ eval.e = Len(samples)
    /\ eval' = [eval EXCEPT
            !.processed = TRUE,
            !.phase = IF eval.overall_total > 0
                         /\ \E k \in DOMAIN eval.results : eval.results[k].total = 0
                      THEN "raised" ELSE "done"]
    /\ UNCHANGED <<samples, ingestVars, routeVars, sessionVars, cycleVars, passVars,
                   concVars>>

(***************************************************************************)
(* Ingestion runs and the serving router.  A run is one entry point going  *)
(* through its statements: POST /api/process_file (backend/api/main.py:    *)
(* 84-94) or the CLI's --process (src/main.py:149-160).  The router loads  *)
(* the artifact at startup or on reload (spec 3, 6; not among the sources).*)
(***************************************************************************)
Actors == {"api", "cli"}

\* pc: "idle", "loaded" after CentroidConverter(...), "saved" after process_all.
IdleRun == [pc |-> "idle", td |-> EmptyTracking, n |-> 0, raised |-> FALSE]

PassIdle == runs = [a \in Actors |-> IdleRun] /\ generations = {}

\* main.py:87 and src/main.py:153: the run makes its converter, which reads the
\* tracking file.
StartPass(a) ==
    /\ runs[a].pc = "idle"
    /\ runs[a].n < MaxRuns
    /\ runs' = [runs EXCEPT ![a] = [pc |-> "loaded", td |-> LoadTracking(trackingFile),
                                    n |-> @.n + 1, raised |-> FALSE]]
    /\ UNCHANGED <<generations, ingestVars, routeVars, sessionVars, cycleVars, evalVars,
                   concVars>>

\* main.py:88 and src/main.py:154: process_all on the run's converter rewrites
\* the tracking file.  The CLI hands the dict process_all returns to
\* asyncio.run, which raises ValueError on anything but a coroutine: the CLI
\* run ends there, before the visualizer.
RunPass(a) ==
    /\ runs[a].pc = "loaded"
    /\ LET r == process_all(runs[a].td, present, {}, dirs, chunkCount)
       IN  /\ trackingFile' = PersistAfter(trackingFile, r)
           /\ generations' = IF r.raised THEN generations ELSE generations \cup {r.td}
           /\ runs' = [runs EXCEPT ![a].td = r.td,
                                   ![a].raised = r.raised \/ a = "cli",
                                   ![a].pc = IF r.raised \/ a = "cli" THEN "idle"
                                             ELSE "saved"]
    /\ UNCHANGED <<chunkCount, dirs, present, conv, artifact, passes, fsOps, loadFailures,
                   lastOp>>
    /\ UNCHANGED <<routeVars, sessionVars, cycleVars, evalVars, concVars>>

\* main.py:91-94: the visualizer reads the tracking file and writes the artifact.
GeneratePass(a) ==
    /\ runs[a].pc = "saved"
    /\ LET r == JsonLoad(trackingFile)
       IN  /\ artifact' = IF r.ok THEN generate_centroid_vectors_file(r.data) ELSE artifact
           /\ runs' = [runs EXCEPT ![a].pc = "idle", ![a].raised = ~r.ok]
    /\ UNCHANGED <<chunkCount, dirs, present, conv, trackingFile, passes, fsOps,
                   loadFailures, lastOp>>
    /\ UNCHANGED <<generations, routeVars, sessionVars, cycleVars, evalVars, concVars>>

\* The lines of a generated table, read as a Python dict literal: a key that
\* is written twice keeps its first position and its last value.
RECURSIVE DictOf(_)
DictOf(lines) ==
    IF Len(lines) = 0 THEN <<>>
    ELSE Put(DictOf(SubSeq(lines, 1, Len(lines) - 1)), lines[Len(lines)])

\* A hot update: the group centroids of the artifact are put into the tables
\* the router already holds.
LoadSnapshot_HotUpdate(art) ==
    [snapshot EXCEPT !.GROUP_CENTROIDS = DictOf(art.GROUP_CENTROIDS)]

\* The router's tables after it has loaded the artifact: the four of them are
\* replaced together.
LoadSnapshot(art) ==
    [GROUP_CENTROIDS |-> DictOf(art.GROUP_CENTROIDS),
     EXPERT_CENTROIDS |-> DictOf(art.EXPERT_CENTROIDS),
     EXPERT_TO_GROUP |-> DictOf(art.EXPERT_TO_GROUP),
     GROUP_TO_EXPERTS |-> DictOf(art.GROUP_TO_EXPERTS)]

\* The router is started again, or told to reload.
ReloadSnapshot ==
    /\ artifact.exists
    /\ snapshot' = LoadSnapshot(artifact)
    /\ snapshot' # snapshot
    /\ UNCHANGED <<routed, generations, runs, ingestVars, sessionVars, cycleVars, evalVars,
                   concVars>>

(***************************************************************************)
(* Queries in flight: process_query is a coroutine (backend/api/main.py:   *)
(* 61-82), so several cycles of route_query are under way at once, each    *)
(* suspended at one of its external calls: embed, retrieve, generate (spec *)
(* 5).  The calls on the SessionManager are plain function calls, which    *)
(* run from start to end without another coroutine in between.             *)
(***************************************************************************)
ReqIds == 1..MaxRequests

\* pc: "idle", then "embed", "retrieve", "generate" while suspended there, "done".
NoRequest ==
    [pc |-> "idle", control |-> FALSE, sid |-> <<>>, query |-> "", ctx |-> <<>>,
     expert |-> "", msg |-> Message(0, "", "", <<>>, "")]

ConcIdle == inflight = [r \in ReqIds |-> NoRequest]

\* The session manager after n exchanges of the default session, one after the
\* other.
RECURSIVE Preloaded(_)
Preloaded(n) ==
    IF n = 0 THEN [sessions |-> <<>>, logs |-> <<>>, raised |-> FALSE]
    ELSE LET p == Preloaded(n - 1)
             msg == Message(n, "hello", GeneratedAnswer,
                            get_conversation_context(p.sessions, DefaultSession), "c")
         IN  add_message(p.sessions, p.logs, DefaultSession, msg, FALSE)

\* route_query steps 1-3: the control token clears the session and ends the
\* cycle; any other query reads its conversation context and is suspended at
\* the embedding call.
BeginQuery(r, requested, query) ==
    /\ inflight[r].pc = "idle"
    /\ \A x \in ReqIds : x < r => inflight[x].pc # "idle"
    /\ LET sid == SessionIdOf(requested)
           c == clear_session(sessions, logs, sid, clock, FALSE)
       IN  IF Lower(query) = "new_session"
           THEN /\ sessions' = c.sessions
                /\ logs' = c.logs
                /\ recorded' = [recorded EXCEPT ![sid] = <<>>]
                /\ sessOp' = [op |-> "clear_session", uid |-> sid, raised |-> FALSE]
                /\ inflight' = [inflight EXCEPT ![r] =
                        [NoRequest EXCEPT !.pc = "done", !.control = TRUE, !.sid = sid,
                                          !.query = query]]
           ELSE /\ inflight' = [inflight EXCEPT ![r] =
                        [NoRequest EXCEPT !.pc = "embed", !.sid = sid, !.query = query,
                            !.ctx = get_conversation_context(sessions, sid)]]
                /\ UNCHANGED <<sessions, logs, recorded, sessOp>>
    /\ UNCHANGED <<clock, writeFailures, reloads, clears>>
    /\ UNCHANGED <<ingestVars, routeVars, cycleVars, evalVars, passVars>>

\* route_query steps 4-6: the embedding arrives and the query is routed and
\* suspended at the vector store; the chunks arrive and the cycle is suspended
\* at the generation call.
ResumeQuery(r) ==
    /\ inflight[r].pc \in {"embed", "retrieve"}
    /\ inflight' = [inflight EXCEPT ![r] =
            IF @.pc = "embed"
            THEN [@ EXCEPT !.pc = "retrieve",
                           !.expert = Route(snapshot, Embed(inflight[r].query)).expert]
            ELSE [@ EXCEPT !.pc = "generate"]]
    /\ UNCHANGED <<ingestVars, routeVars, sessionVars, cycleVars, evalVars, passVars>>

\* route_query steps 7-9: the generation call returns or raises, and the
\* exchange is recorded by add_message.
FinishQuery(r, apiFails) ==
    /\ inflight[r].pc = "generate"
    /\ LET req == inflight[r]
           context == ContextOf("nested", get_similar_documents(FALSE, DEFAULT_TOP_K))
           gen == generate_response(apiKeySet, context, apiFails)
           msg == Message(clock + 1, req.query,
                          IF gen.response.hasAnswer THEN gen.response.answer
                          ELSE NoAnswerProvided,
                          req.ctx, req.expert)
           a == add_message(sessions, logs, req.sid, msg, FALSE)
       IN  /\ sessions' = a.sessions
           /\ logs' = a.logs
           /\ recorded' = [recorded EXCEPT ![req.sid] = Append(@, msg)]
           /\ sessOp' = [op |-> "add_message", uid |-> req.sid, raised |-> a.raised]
           /\ inflight' = [inflight EXCEPT ![r].pc = "done", ![r].msg = msg]
    /\ clock' = clock + 1
    /\ UNCHANGED <<writeFailures, reloads, clears>>
    /\ UNCHANGED <<ingestVars, routeVars, cycleVars, evalVars, passVars>>

(***************************************************************************)
(* Specifications, one per part of the system; the variables of the other  *)
(* parts stay at rest.                                                     *)
(***************************************************************************)
IngestIdle ==
    /\ chunkCount = [f \in Files |-> 1]
    /\ dirs = [d \in ExpertDirs |-> {}]
    /\ present = {}
    /\ conv = EmptyTracking
    /\ trackingFile = AbsentFile
    /\ artifact = NoArtifact
    /\ passes = 0
    /\ fsOps = 0
    /\ loadFailures = 0
    /\ lastOp = IdleOp

RouteIdle == snapshot = ServiceSnapshot /\ routed = NotRouted

CycleIdle == apiKeySet = TRUE /\ cycle = NoCycle /\ cycles = 0

RestIdle == EvalIdle /\ PassIdle /\ ConcIdle

\* Ingestion: the data directory changes, converters are made and run, the
\* artifact is generated.
InitIngest == IngestInit /\ RouteIdle /\ SessionInit /\ CycleIdle /\ RestIdle

IngestNext ==
    \/ \E d \in ExpertDirs, f \in Files : AddFile(d, f)
    \/ \E d \in ExpertDirs, f \in Files : RemoveFile(d, f)
    \/ Construct
    \/ \E failing \in SUBSET present : ProcessAll(failing)
    \/ Generate

SpecIngest == InitIngest /\ [][IngestNext]_vars

\* Routing: queries are routed over one snapshot.
InitRoute == IngestIdle /\ RouteInit /\ SessionInit /\ CycleIdle /\ RestIdle

RouteNext == \E q \in SampleVectors : RouteQuery(q)

SpecRoute == InitRoute /\ [][RouteNext]_vars

\* Sessions: the calls made on a SessionManager, and restarts of its process.
SessionQueries == {"hello"}

InitSession == IngestIdle /\ RouteIdle /\ SessionInit /\ CycleIdle /\ RestIdle

SessionNext ==
    \/ \E uid \in SessionIds, q \in SessionQueries, w \in BOOLEAN :
           AddMessage(uid, q, GeneratedAnswer, "a", w)
    \/ \E uid \in SessionIds, w \in BOOLEAN : ClearSession(uid, w)
    \/ Reload

SpecSession == InitSession /\ [][SessionNext]_vars

\* One session whose queries differ from one another.
ContextQueries == {"hello", "bye"}

ContextNext ==
    \/ \E q \in ContextQueries, w \in BOOLEAN :
           AddMessage(DefaultSession, q, GeneratedAnswer, "a", w)
    \/ \E w \in BOOLEAN : ClearSession(DefaultSession, w)
    \/ Reload

SpecContext == InitSession /\ [][ContextNext]_vars

\* Sessions whose ids have no, one or several underscores, and restarts.
IdentityIds == {<<"abc">>, DefaultSession} \cup LongSessionIds

IdentityNext ==
    \/ \E uid \in IdentityIds : AddMessage(uid, "hello", GeneratedAnswer, "a", FALSE)
    \/ Reload

SpecIdentity == InitSession /\ [][IdentityNext]_vars

\* The service answering queries.
InitQuery ==
    /\ IngestIdle
    /\ snapshot \in ServiceSnapshots /\ routed = NotRouted
    /\ QueryInit
    /\ RestIdle

QueryNext ==
    \E requested \in RequestSessionIds, query \in Queries, retrievalFails \in BOOLEAN,
       k \in 0..DEFAULT_TOP_K, shape \in Shapes, apiFails \in BOOLEAN,
       writeFails \in BOOLEAN :
       ProcessQuery(requested, query, retrievalFails, k, shape, apiFails, writeFails)

SpecQuery == InitQuery /\ [][QueryNext]_vars

\* The evaluator run over a labelled set, on a loaded or an empty snapshot.
InitEval ==
    /\ IngestIdle /\ SessionInit /\ CycleIdle /\ PassIdle /\ ConcIdle
    /\ snapshot \in {ServiceSnapshot, EmptySnapshot} /\ routed = NotRouted
    /\ samples \in SampleSets
    /\ eval = [NoEval EXCEPT !.phase = "experts"]

EvalNext ==
    \/ BeginExpert
    \/ EvalSample
    \/ Report

SpecEval == InitEval /\ [][EvalNext]_vars

\* Ingestion runs of both entry points while the data directory grows, and a
\* router that loads the artifact and serves queries.
PassQueries == {<<1, 0>>}

\* The PDFs that arrive in the data directory while the runs go on.
PassFiles == {<<<<"g1", "a">>, "f1">>, <<<<"g1", "b">>, "f2">>, <<<<"g2", "a">>, "f2">>}

InitPasses ==
    /\ IngestIdle /\ SessionInit /\ CycleIdle /\ EvalIdle /\ PassIdle /\ ConcIdle
    /\ snapshot = EmptySnapshot /\ routed = NotRouted

PassesNext ==
    \/ \E df \in PassFiles : AddFile(df[1], df[2])
    \/ \E a \in Actors : StartPass(a)
    \/ \E a \in Actors : RunPass(a)
    \/ \E a \in Actors : GeneratePass(a)
    \/ ReloadSnapshot
    \/ \E q \in PassQueries : RouteQuery(q)

SpecPasses == InitPasses /\ [][PassesNext]_vars

\* Concurrent query cycles on a service that has answered PreloadedExchanges
\* queries before, or none.
PreloadedExchanges == max_history - 1

InitConc ==
    /\ IngestIdle /\ RouteIdle /\ CycleIdle /\ EvalIdle /\ PassIdle /\ ConcIdle
    /\ \E n \in {0, PreloadedExchanges} :
           /\ sessions = Preloaded(n).sessions
           /\ logs = Preloaded(n).logs
           /\ clock = n
           /\ recorded = [uid \in AllSessionIds |->
                             get_history(Preloaded(n).sessions, uid)]
    /\ writeFailures = 0 /\ reloads = 0 /\ clears = 0 /\ sessOp = NoSessOp

ConcNext ==
    \/ \E r \in ReqIds, requested \in RequestSessionIds, query \in {"hello", "new_session"} :
           BeginQuery(r, requested, query)
    \/ \E r \in ReqIds : ResumeQuery(r)
    \/ \E r \in ReqIds, apiFails \in BOOLEAN : FinishQuery(r, apiFails)

SpecConc == InitConc /\ [][ConcNext]_vars

(***************************************************************************)
(* Routing properties.                                                     *)
(***************************************************************************)
\* The centroid of expert e in the loaded snapshot.
CentroidOfExpert(e) == Get(snapshot.EXPERT_CENTROIDS, e).value.n
CentroidOfGroup(g) == Get(snapshot.GROUP_CENTROIDS, g).value.n
MembersOf(g) == Get(snapshot.GROUP_TO_EXPERTS, g).value

\* C1: on a non-empty snapshot, route returns a (group, expert) pair: the group
\* has the highest cosine similarity to the query among all group centroids,
\* the expert is a member of that group and has the highest cosine similarity
\* among that group's members only, whatever the experts of other groups score.
C1_TwoStageArgmax ==
    (routed.done /\ snapshot.GROUP_CENTROIDS # <<>>) =>
        /\ routed.ok
        /\ Has(snapshot.GROUP_CENTROIDS, routed.group)
        /\ \A i \in DOMAIN snapshot.GROUP_CENTROIDS :
               CosGE(routed.q, CentroidOfGroup(routed.group),
                     snapshot.GROUP_CENTROIDS[i].value.n)
        /\ \E j \in DOMAIN MembersOf(routed.group) :
               MembersOf(routed.group)[j] = routed.expert
        /\ \A j \in DOMAIN MembersOf(routed.group) :
               CosGE(routed.q, CentroidOfExpert(routed.expert),
                     CentroidOfExpert(MembersOf(routed.group)[j]))

\* C1 witness: a query was routed although an expert of another group is
\* strictly more similar to it than the expert returned.
C1_Witness ==
    /\ routed.done /\ routed.ok
    /\ \E i \in DOMAIN snapshot.EXPERT_TO_GROUP :
           /\ snapshot.EXPERT_TO_GROUP[i].value # routed.group
           /\ CosGT(routed.q, CentroidOfExpert(snapshot.EXPERT_TO_GROUP[i].name),
                    CentroidOfExpert(routed.expert))

(***************************************************************************)
(* Ingestion properties.                                                   *)
(***************************************************************************)
\* The centroid the converter computes for an expert it has never seen whose
\* directory holds exactly the given files: the mean of all their chunks.
FromScratchCentroid(files, cc) ==
    CombinedCentroid(NewExpert(""), 0, files, NewWeight(files, cc), cc)

\* C3: incremental equivalence: whatever file sets an expert's centroid was
\* updated with, one after the other, the stored centroid equals the centroid
\* computed from scratch over all of its tracked files, for every assignment
\* of chunk counts to files.
C3_IncrementalEquivalence ==
    \A i \in DOMAIN conv : \A j \in DOMAIN conv[i].experts :
        conv[i].experts[j].files # {} =>
            conv[i].experts[j].centroid =
                FromScratchCentroid(conv[i].experts[j].files, chunkCount)

\* The files recorded for expert e of group g in tracking data td.
TrackedFiles(td, g, e) ==
    IF Has(td, g) /\ Has(Get(td, g).experts, e) THEN ExpertEntry(td, g, e).files ELSE {}

\* A pass has been persisted and no directory holds a file beyond those the
\* persisted tracking state records for its expert.
NoNewFiles ==
    /\ trackingFile.kind = "json"
    /\ \A d \in ExpertDirs : dirs[d] \subseteq TrackedFiles(trackingFile.data, d[1], d[2])

\* A step that is one call of process_all.
IsPass == passes' = passes + 1

\* C4: idempotence of ingestion: a pass run again over a directory with no
\* files beyond those already tracked leaves every expert centroid, group
\* centroid and tracked file set, and the lookup artifact generated from them,
\* identical to those after the prior pass.
C4_Idempotence ==
    [][(IsPass /\ NoNewFiles) =>
          /\ trackingFile' = trackingFile
          /\ generate_centroid_vectors_file(trackingFile'.data)
                = generate_centroid_vectors_file(trackingFile.data)]_vars

\* The experts of a group entry that have a centroid, and the file-count-
\* weighted mean of their centroids (None when they track no file at all).
WithCentroid(experts) == SelectSeq(experts, LAMBDA ed : ed.centroid # None)
FileCounts(experts) == [j \in DOMAIN experts |-> Cardinality(experts[j].files)]
MemberMean(experts) ==
    IF SumSeq(FileCounts(experts)) = 0 THEN None
    ELSE RatDiv(RatSum([j \in DOMAIN experts |->
                           RatScale(experts[j].centroid, Cardinality(experts[j].files))]),
                SumSeq(FileCounts(experts)))

\* C5: after every completed ingestion pass, every recorded group's centroid is
\* the file-count-weighted mean of the current centroids of all experts
\* recorded under it, those that gained no file in the pass included.
C5_GroupCentroidIsMemberMean ==
    lastOp = [op |-> "process_all", ok |-> TRUE] =>
        \A i \in DOMAIN conv :
            conv[i].centroid = MemberMean(WithCentroid(conv[i].experts))

\* C6: across ingestion passes, each loading the tracking state the previous
\* one persisted, every expert's persisted set of processed files after a pass
\* is a superset of its set before it, also when files were removed from the
\* source directory in between.
C6_FileSetsMonotonic ==
    [][\A d \in ExpertDirs :
          TrackedFiles(trackingFile.data, d[1], d[2])
              \subseteq TrackedFiles(trackingFile'.data, d[1], d[2])]_vars

\* C20: when a pass finds new files for an expert that has a centroid and
\* tracked files, the stored centroid becomes (old centroid * old weight + sum
\* of the new chunk embeddings) / (old weight + new weight), both weights
\* counting files: the tracked files and the distinct new files.
C20_WeightsCountFiles ==
    [][(IsPass /\ loadFailures' = loadFailures /\ lastOp'.ok) =>
          \A d \in present :
              LET old == IF Has(conv, d[1]) /\ Has(Get(conv, d[1]).experts, d[2])
                         THEN ExpertEntry(conv, d[1], d[2]) ELSE NewExpert(d[2])
                  new == dirs[d] \ old.files
              IN  (old.centroid # None /\ old.files # {} /\ new # {}) =>
                      ExpertEntry(conv', d[1], d[2]).centroid =
                          CombinedCentroid(old, Cardinality(old.files), new,
                                           Cardinality(new), chunkCount)]_vars

\* C21: the persisted tracking state is written once per pass, after all
\* groups and experts are processed: a pass that ends normally leaves in the
\* file the tracking data it ended with, and a pass that fails before the end
\* leaves the file exactly as it was before the pass, with none of the progress
\* made in memory.
C21_SavedOnceAtEnd ==
    [][IsPass =>
          IF lastOp'.ok THEN trackingFile' = JsonText(conv')
          ELSE trackingFile' = trackingFile]_vars

\* C21 witness: a pass failed after an earlier one was persisted, and the
\* tracking data in memory holds progress the file does not.
C21_Witness ==
    /\ lastOp = [op |-> "process_all", ok |-> FALSE]
    /\ trackingFile.kind = "json"
    /\ conv # trackingFile.data
    /\ Len(conv) > Len(trackingFile.data)

\* C27: every generated lookup artifact is referentially consistent: every
\* group listed in GROUP_TO_EXPERTS has an entry in GROUP_CENTROIDS, and every
\* expert listed for a group has an entry in EXPERT_CENTROIDS and is mapped to
\* that group by EXPERT_TO_GROUP, also when an expert failed to load or two
\* groups hold an expert of the same name.
C27_ArtifactConsistent ==
    artifact.exists =>
        LET gc == DictOf(artifact.GROUP_CENTROIDS)
            ec == DictOf(artifact.EXPERT_CENTROIDS)
            etg == DictOf(artifact.EXPERT_TO_GROUP)
            gte == DictOf(artifact.GROUP_TO_EXPERTS)
        IN  \A i \in DOMAIN gte :
                /\ Has(gc, gte[i].name)
                /\ \A j \in DOMAIN gte[i].value :
                       /\ Has(ec, gte[i].value[j])
                       /\ Has(etg, gte[i].value[j])
                       /\ Get(etg, gte[i].value[j]).value = gte[i].name

\* C29: an ingestion pass completes and persists the tracking state for every
\* directory layout, an expert directory without documents and without a stored
\* centroid included.
C29_PassCompletes ==
    lastOp.op = "process_all" =>
        /\ lastOp.ok
        /\ trackingFile = JsonText(conv)

\* C18: a converter starts from the empty tracking state only when there is
\* nothing well-formed to load: the tracking file is absent, empty or
\* malformed, or it holds the empty state itself.
C18_OnlyMalformedGivesEmpty ==
    (lastOp.op = "construct" /\ conv = EmptyTracking) =>
        \/ trackingFile.kind # "json"
        \/ trackingFile.data = EmptyTracking

(***************************************************************************)
(* Session properties.                                                     *)
(***************************************************************************)
\* The lines of a session's log file, and its messages since the last
\* "Session cleared" event.
LogLines(sid) == IF LogFileName(sid) \in DOMAIN logs THEN logs[LogFileName(sid)] ELSE <<>>
LoggedSinceClear(sid) ==
    LET lines == LogLines(sid)
        events == {i \in DOMAIN lines : ~IsMessage(lines[i])}
        last == IF events = {} THEN 0 ELSE CHOOSE i \in events : \A j \in events : j <= i
    IN  SubSeq(lines, last + 1, Len(lines))

\* The exchanges a session's log file holds.
LoggedMessages(sid) == SelectSeq(LogLines(sid), IsMessage)

\* C2: for every session id, after any sequence of n add_message calls with no
\* clear in between, get_history returns exactly the last min(n, 5) recorded
\* exchanges, oldest first.
C2_SlidingWindow ==
    \A uid \in SessionIds :
        get_history(sessions, uid) = LastN(recorded[uid], max_history)

\* C22: the sliding window is enforced in durable storage as in memory: while
\* every log write succeeded and nothing was cleared, the exchanges a session's
\* log holds are the exchanges of its in-memory history, at most five.
C22_DurableWindow ==
    (writeFailures = 0 /\ clears = 0 /\ reloads = 0) =>
        \A uid \in SessionIds :
            /\ LoggedMessages(uid) = get_history(sessions, uid)
            /\ Len(LoggedMessages(uid)) <= max_history

\* The space-joined queries of the last three exchanges of a history.
LastQueries(h) ==
    LET last == LastN(h, 3)
    IN  SpaceJoin([i \in DOMAIN last |-> last[i].query])

\* C23: the conversation context of a session is the query texts of the last
\* min(3, n) exchanges of its history, in recording order, joined by single
\* spaces, and the empty string for an empty history, right after a clear
\* included; the context recorded with an exchange is the one of the exchanges
\* before it.  No answer and no query outside the history is part of it.
C23_ContextIsLastQueries ==
    \A uid \in SessionIds :
        LET h == get_history(sessions, uid)
            n == Len(h)
            k == IF n < 3 THEN n ELSE 3
            ctx == get_conversation_context(sessions, uid)
            given == recorded[uid]
        IN  /\ n = 0 => ctx = <<>>
            /\ n > 0 =>
                   /\ Len(ctx) = 2 * k - 1
                   /\ \A j \in 1..k : ctx[2 * j - 1] = h[n - k + j].query
                   /\ \A j \in 1..(k - 1) : ctx[2 * j] = " "
            /\ (sessOp = [op |-> "clear_session", uid |-> uid, raised |-> FALSE]) =>
                   ctx = <<>>
            /\ (sessOp.op = "add_message" /\ sessOp.uid = uid) =>
                   given[Len(given)].conversation_context
                       = LastQueries(SubSeq(given, 1, Len(given) - 1))

\* C23 witness: a context of three queries that are not all the same, of a
\* session from whose window an exchange with another query was evicted.
C23_Witness ==
    LET h == get_history(sessions, DefaultSession)
        ctx == get_conversation_context(sessions, DefaultSession)
    IN  /\ Len(h) = max_history
        /\ Len(recorded[DefaultSession]) > max_history
        /\ ctx = <<"bye", " ", "hello", " ", "bye">>
        /\ recorded[DefaultSession][1].query = "hello"
        /\ h[1].query = "bye" /\ h[2].query = "bye"

\* C24: in every state the SessionManager is left in by add_message (returned
\* or raised), clear_session and reloads, every session's in-memory history
\* holds at most max_history exchanges.
C24_WindowBound ==
    \A uid \in DOMAIN sessions : Len(sessions[uid]) <= max_history

\* C25: clearing a session is durable: the history a SessionManager re-created
\* from the log directory holds for a session has no exchange that was recorded
\* before the session's last clear, only those logged after it.
C25_ClearIsDurable ==
    sessOp.op = "reload" =>
        \A uid \in SessionIds :
            \A i \in DOMAIN get_history(sessions, uid) :
                \E j \in DOMAIN LoggedSinceClear(uid) :
                    LoggedSinceClear(uid)[j] = get_history(sessions, uid)[i]

\* C26: session identity round-trips through the log: a SessionManager
\* re-created from the log directory returns, for every session id used with
\* add_message, the window of that session's logged exchanges under that id,
\* and holds under every id only exchanges logged for that very id, so that no
\* two sessions are merged and none appears under another name.
C26_IdentityRoundTrips ==
    sessOp.op = "reload" =>
        /\ \A uid \in AllSessionIds :
               get_history(sessions, uid) = LastN(LoggedMessages(uid), max_history)
        /\ \A k \in DOMAIN sessions : \A i \in DOMAIN sessions[k] :
               \E j \in DOMAIN LoggedMessages(k) : LoggedMessages(k)[j] = sessions[k][i]

\* C17: a failing append to the durable log is not fatal to add_message: the
\* call returns without raising, and the in-memory history ends with the new
\* exchange and is cut to the window of five.
C17_LogFailureNonFatal ==
    sessOp.op = "add_message" =>
        LET h == get_history(sessions, sessOp.uid)
            given == recorded[sessOp.uid]
        IN  /\ ~sessOp.raised
            /\ h # <<>> /\ h[Len(h)] = given[Len(given)]
            /\ Len(h) <= max_history

(***************************************************************************)
(* Properties of the query-answer cycle.                                   *)
(***************************************************************************)
\* C7: a query that is the control token "new_session", in any letter case,
\* clears the history of its session and ends the cycle: it is not routed, not
\* answered by the generation collaborator and not appended to the history, so
\* an exchange recorded afterwards is appended to an empty history.
C7_ControlTokenClears ==
    (cycle.done /\ cycle.control) =>
        /\ get_history(sessions, cycle.response.session_id) = <<>>
        /\ cycle.group = "" /\ cycle.expert = ""
        /\ ~cycle.genInvoked
        /\ ~cycle.recordedExchange

\* C8: when the generation collaborator raises, the cycle still returns a
\* response with a non-empty answer and sources 0, and nothing reaches the
\* caller as a failure.
C8_GenerationFailureDegrades ==
    (cycle.done /\ cycle.genFailed) =>
        /\ ~cycle.aborted
        /\ cycle.response.answer # ""
        /\ cycle.response.sources = 0

\* C8 witness: a cycle whose generation call raised after chunks were retrieved.
C8_Witness == cycle.done /\ cycle.genFailed /\ cycle.retrieved > 0

\* C9: when the vector-store query fails, the cycle goes on with an empty
\* retrieved context: the generation collaborator is still invoked, with empty
\* context text, and a well-formed response is returned; the retrieval failure
\* does not reach the caller.
C9_RetrievalFailureDegrades ==
    (cycle.done /\ cycle.retrievalFailed) =>
        /\ ~cycle.aborted
        /\ cycle.genCalled
        /\ cycle.contextText = <<>>
        /\ cycle.genInvoked => cycle.genText = <<>>
        /\ cycle.response.answer # ""
        /\ cycle.response.sources = 0

\* C9 witness: a cycle whose retrieval failed and whose generation call was made.
C9_Witness == cycle.done /\ cycle.retrievalFailed /\ cycle.genInvoked

C28_GeneratedTextIsAnswer ==
    (cycle.done /\ cycle.genInvoked /\ ~cycle.genFailed) =>
        cycle.response.answer = GeneratedAnswer

\* C10: in every successful response, sources is the number of chunks retrieved
\* for the routed expert, whether generation is handed a list of chunk lists or
\* a flat list of chunk strings.
C10_SourcesCountChunks ==
    (cycle.done /\ cycle.genInvoked /\ cycle.response.answer = GeneratedAnswer) =>
        cycle.response.sources = cycle.retrieved

C13_TalliesAddUp ==
    eval.processed =>
        LET rs == eval.results
            confusions(k) == [j \in DOMAIN rs[k].incorrect_routings |->
                                 rs[k].incorrect_routings[j].value]
        IN  /\ Len(rs) = Len(samples)
            /\ \A k \in DOMAIN samples :
                   /\ rs[k].name = samples[k].name
                   /\ rs[k].total = Len(samples[k].value)
                   /\ rs[k].correct + SumSeq(confusions(k)) = rs[k].total
                   /\ \A j \in DOMAIN rs[k].incorrect_routings :
                          rs[k].incorrect_routings[j].name # rs[k].name
            /\ eval.overall_correct = SumSeq([k \in DOMAIN rs |-> rs[k].correct])
            /\ eval.overall_total = SumSeq([k \in DOMAIN rs |-> rs[k].total])

\* C13 witness: a processed set of two experts with correct and incorrect
\* routings, one wrong expert hit twice.
C13_Witness ==
    /\ eval.processed /\ Len(samples) = 2
    /\ 0 < eval.overall_correct /\ eval.overall_correct < eval.overall_total
    /\ \E k \in DOMAIN eval.results : \E j \in DOMAIN eval.results[k].incorrect_routings :
           eval.results[k].incorrect_routings[j].value = 2

\* C30: the evaluator produces its report for every labelled set it has gone
\* through, a set in which one expected expert has no sample query while
\* another has some included: no accuracy is a division by a zero total.
C30_ReportCompletes ==
    eval.processed => eval.phase = "done"

(***************************************************************************)
(* Properties of ingestion runs and of the snapshot the router serves.     *)
(***************************************************************************)
\* C14: at most one ingestion pass is in progress at any time: no entry point
\* is between making its converter and its last write while another one is.
C14_OnePassAtATime == Cardinality({a \in Actors : runs[a].pc # "idle"}) <= 1

====
